---- MODULE Spec2Model ----
(***************************************************************************)
(* A model of tinyblend (src/tinyblend.py): a reader for Blender's .blend  *)
(* container.  The model covers the File facade (BlenderFile), the typed   *)
(* view factory (BlenderObjectFactory), the compiled layouts and records   *)
(* (BlenderObject subclasses and their instances), the pointer descriptor  *)
(* (AddressLookup) and the two process-wide weak caches.                   *)
(*                                                                         *)
(* Conventions.  Python sequences are 0-based: At(s, i) is s[i].  Bytes    *)
(* are naturals below 256.  Field names are sequences of one-character     *)
(* strings so that the sigil and bracket handling of the source can be     *)
(* modelled as the string operations they are; type names are strings.     *)
(* Python's None is the value None below.  An outcome of a call is a       *)
(* record [kind, val]: kind "value" for a normal return, otherwise the     *)
(* name of the exception class that propagates to the caller.              *)
(***************************************************************************)
EXTENDS Integers, Sequences, FiniteSets, TLC

(***************************************************************************)
(* Bounds of the model                                                     *)
(***************************************************************************)
\* how many BlenderFile objects the program constructs in one run
MaxFiles == 2
\* how many BlenderObjectFactory objects the caller keeps in variables at a time
MaxFactories == 2
\* how many Records the caller keeps in variables at a time (besides the value
\* the last call returned)
MaxRecords == 1

(***************************************************************************)
(* Python helpers                                                          *)
(***************************************************************************)
None == [none |-> TRUE]

\* Python values carry their type: int, bytes, tuple, list; a namedtuple row of
\* Struct.unpack is a row; a Record is [type, file, attrs, kids]
PyInt(n) == [int |-> n]

PyBytes(bs) == [bytes |-> bs]

PyTuple(vs) == [tuple |-> vs]

PyList(vs) == [list |-> vs]

PyRow(vs) == [row |-> vs]

IsInt(v) == DOMAIN v = {"int"}

IsTuple(v) == DOMAIN v = {"tuple"}

IsBytes(v) == DOMAIN v = {"bytes"}

IsRecord(v) == "type" \in DOMAIN v

Min(a, b) == IF a < b THEN a ELSE b

Max(S) == CHOOSE x \in S : \A y \in S : y <= x

Lowest(S) == CHOOSE x \in S : \A y \in S : x <= y

At(s, i) == s[i + 1]

\* s[a:b] for 0 <= a
Slice(s, a, b) == IF a >= Min(b, Len(s)) THEN << >> ELSE SubSeq(s, a + 1, Min(b, Len(s)))

Range(s) == {s[i] : i \in 1..Len(s)}

RECURSIVE SumSeq(_)
SumSeq(s) == IF s = << >> THEN 0 ELSE Head(s) + SumSeq(Tail(s))

RECURSIVE Concat(_)
Concat(ss) == IF ss = << >> THEN << >> ELSE Head(ss) \o Concat(Tail(ss))

\* the position of the first element equal to x (list.index / bytes.index), -1 if none
IndexOf(s, x) ==
    IF \E i \in 1..Len(s) : s[i] = x
    THEN (CHOOSE i \in 1..Len(s) : s[i] = x /\ \A j \in 1..(i - 1) : s[j] # x) - 1
    ELSE -1

Digits == <<"0", "1", "2", "3", "4", "5", "6", "7", "8", "9">>

IsDigit(c) == c \in Range(Digits)

\* int(v) for a string of decimal digits
RECURSIVE IntOf(_)
IntOf(cs) ==
    IF cs = << >> THEN 0
    ELSE 10 * IntOf(SubSeq(cs, 1, Len(cs) - 1)) + IndexOf(Digits, cs[Len(cs)])

\* str(n) for n >= 0
RECURSIVE StrOf(_)
StrOf(n) == IF n < 10 THEN <<At(Digits, n)>> ELSE StrOf(n \div 10) \o <<At(Digits, n % 10)>>

Outcome(kind, val) == [kind |-> kind, val |-> val]

Value(val) == Outcome("value", val)

Raise(kind) == Outcome(kind, None)

\* a local variable: the rest of the computation on the value v
With(v, rest(_)) == rest(v)

\* the rest of a computation on the value a call returned; an exception the
\* call raised propagates instead
Try(o, rest(_)) == IF o.kind # "value" THEN o ELSE rest(o.val)

(***************************************************************************)
(* Module constants of tinyblend                                           *)
(***************************************************************************)
\* struct format character of every base type
BASE_TYPES ==
    [float |-> "f", double |-> "d", int |-> "i", short |-> "h", ushort |-> "H",
     char |-> "c", long |-> "l", ulong |-> "L", uint64_t |-> "Q", int64_t |-> "q"]

\* BlendFileArch.value and BlendFileEndian.value
ArchValue(arch) == IF arch = "X32" THEN "I" ELSE "Q"

EndianValue(endian) == IF endian = "Little" THEN "<" ELSE ">"

\* struct.calcsize of one format character under a '<' or '>' prefix
CodeSize(c) ==
    CASE c \in {"x", "c", "s"} -> 1
      [] c \in {"h", "H"} -> 2
      [] c \in {"i", "I", "l", "L", "f"} -> 4
      [] c \in {"q", "Q", "d"} -> 8

(***************************************************************************)
(* The files on disk.  Every file carries the same schema (the DNA1 block):*)
(*                                                                         *)
(*   struct ID            { ID *next; char name[4]; };                     *)
(*   struct World         { ID id; short aodist; };                        *)
(*   struct rctf          { short xmin; short xmax; };                     *)
(*   struct Scene         { ID id; World *world; };                        *)
(*   struct TreeStoreElem { short type; ID *id; };                         *)
(*                                                                         *)
(* A file is its 12 header bytes and its block stream; a block is its      *)
(* header fields and its payload bytes.  The payload of the DNA1 block is  *)
(* kept in parsed form (the BlendIndex that _parse_index returns for it).  *)
(***************************************************************************)
\* field-name table; index i is entry i + 1
FieldNames ==
    << <<"*", "n", "e", "x", "t">>,
       <<"n", "a", "m", "e", "[", "4", "]">>,
       <<"i", "d">>,
       <<"a", "o", "d", "i", "s", "t">>,
       <<"x", "m", "i", "n">>,
       <<"x", "m", "a", "x">>,
       <<"*", "w", "o", "r", "l", "d">>,
       <<"t", "y", "p", "e">>,
       <<"*", "i", "d">> >>

TypeNames == <<"char", "short", "ID", "World", "rctf", "Scene", "TreeStoreElem">>

FieldDNA(t, n) == [index_type |-> t, index_name |-> n]

StructDNA(i, fs) == [index |-> i, fields |-> fs]

Structures ==
    << StructDNA(2, <<FieldDNA(2, 0), FieldDNA(0, 1)>>),
       StructDNA(3, <<FieldDNA(2, 2), FieldDNA(1, 3)>>),
       StructDNA(4, <<FieldDNA(1, 4), FieldDNA(1, 5)>>),
       StructDNA(5, <<FieldDNA(2, 2), FieldDNA(3, 6)>>),
       StructDNA(6, <<FieldDNA(1, 7), FieldDNA(2, 8)>>) >>

\* the BlendIndex of a file written by a 64-bit build
Index64 ==
    [field_names |-> FieldNames, type_names |-> TypeNames,
     type_sizes |-> <<1, 2, 12, 14, 4, 20, 10>>, structures |-> Structures]

\* the BlendIndex of a file that also defines
\*   struct Tex { ID *mtex[3]; short m[2][2]; char **pp; short *q[2][2]; };
IndexTex ==
    [field_names |-> FieldNames \o << <<"*", "m", "t", "e", "x", "[", "3", "]">>,
                                      <<"m", "[", "2", "]", "[", "2", "]">>,
                                      <<"*", "*", "p", "p">>,
                                      <<"*", "q", "[", "2", "]", "[", "2", "]">> >>,
     type_names |-> TypeNames \o <<"Tex">>,
     type_sizes |-> <<1, 2, 12, 14, 4, 20, 10, 72>>,
     structures |-> Structures
                      \o << StructDNA(7, <<FieldDNA(2, 9), FieldDNA(1, 10),
                                           FieldDNA(0, 11), FieldDNA(1, 12)>>) >>]

BlockHeader(code, size, addr, sdna, count) ==
    [code |-> code, size |-> size, addr |-> addr, sdna |-> sdna, count |-> count]

StreamBlock(code, addr, sdna, count, data) ==
    [head |-> BlockHeader(code, Len(data), addr, sdna, count), data |-> data]

\* the DNA1 block; its payload is the parsed index, its size field the payload's length
IndexBlock(index, size) ==
    [head |-> BlockHeader("DNA1", size, 0, 0, 1), data |-> index]

EndBlock == [head |-> BlockHeader("ENDB", 0, 0, 0, 0), data |-> << >>]

\* a pointer stored by a little-endian 64-bit build
Ptr64LE(a) == <<a, 0, 0, 0, 0, 0, 0, 0>>

Short16LE(v) == <<v % 256, v \div 256>>

\* payload of an ID: next pointer, then the four name bytes
IDBytes(next, name) == Ptr64LE(next) \o name

WorldBlock(addr, next, name, aodist) ==
    StreamBlock("WO", addr, 1, 1, IDBytes(next, name) \o Short16LE(aodist))

SceneBlock(addr, name, world) ==
    StreamBlock("SC", addr, 3, 1, IDBytes(0, name) \o Ptr64LE(world))

RctfBlock(addr, xmin, xmax) ==
    StreamBlock("DATA", addr, 2, 1, Short16LE(xmin) \o Short16LE(xmax))

TreeStoreBlock(addr, type, id) ==
    StreamBlock("DATA", addr, 4, 1, Short16LE(type) \o Ptr64LE(id))

\* b'BLENDER-v277', b'BLENDER-v280', b'BLENDER*v277'
Header277 == <<66, 76, 69, 78, 68, 69, 82, 45, 118, 50, 55, 55>>

Header280 == <<66, 76, 69, 78, 68, 69, 82, 45, 118, 50, 56, 48>>

HeaderBad == <<66, 76, 69, 78, 68, 69, 82, 42, 118, 50, 55, 55>>

\* b'BLENDER_v277': a file written by a 32-bit build
Header32 == <<66, 76, 69, 78, 68, 69, 82, 95, 118, 50, 55, 55>>

\* b'WOA\0', b'WOB\0', b'SCS\0', b'SCT\0'
NameWOA == <<87, 79, 65, 0>>

NameWOB == <<87, 79, 66, 0>>

NameSCS == <<83, 67, 83, 0>>

NameSCT == <<83, 67, 84, 0>>

\* the file names open() is called with
Paths == {"a.blend", "b.blend", "c.blend", "d.blend", "e.blend", "f.blend",
          "g.blend", "noend.blend", "text.txt"}

Disk(path) ==
    CASE path = "a.blend" ->
           [hdr |-> Header277,
            stream |-> << WorldBlock(16, 99, NameWOA, 5),
                          SceneBlock(32, NameSCS, 16),
                          SceneBlock(48, NameSCT, 0),
                          RctfBlock(64, 1, 2),
                          RctfBlock(80, 1, 3),
                          TreeStoreBlock(96, 1, 0),
                          IndexBlock(Index64, 64),
                          EndBlock >>]
      [] path = "b.blend" ->
           [hdr |-> Header277,
            stream |-> << WorldBlock(16, 0, NameWOA, 5),
                          WorldBlock(24, 0, NameWOB, 6),
                          IndexBlock(Index64, 64),
                          EndBlock >>]
      [] path = "c.blend" ->
           [hdr |-> Header280,
            stream |-> << WorldBlock(16, 0, NameWOB, 6),
                          IndexBlock(Index64, 64),
                          EndBlock >>]
      [] path = "d.blend" ->
           [hdr |-> Header277,
            stream |-> << RctfBlock(64, 1, 2),
                          RctfBlock(64, 1, 3),
                          StreamBlock("DATA", 80, 2, 2,
                                      Short16LE(1) \o Short16LE(2)
                                        \o Short16LE(3) \o Short16LE(4)),
                          WorldBlock(16, 0, NameWOA, 5),
                          IndexBlock(Index64, 64),
                          EndBlock >>]
      [] path = "e.blend" ->
           [hdr |-> Header277, stream |-> << IndexBlock(IndexTex, 64), EndBlock >>]
      [] path = "f.blend" ->
           [hdr |-> Header32, stream |-> << IndexBlock(IndexTex, 64), EndBlock >>]
      [] path = "g.blend" ->
           \* b'BLENDER_V277': written by a big-endian 32-bit build, so the ID is
           \* 8 bytes, the Scene 12, and the rctf holds 1 and 2 high byte first;
           \* the Scene has the empty name
           [hdr |-> <<66, 76, 69, 78, 68, 69, 82, 95, 86, 50, 55, 55>>,
            stream |-> << StreamBlock("SC", 32, 3, 1,
                                      <<0, 0, 0, 0>> \o <<0, 0, 0, 0>> \o <<0, 0, 0, 0>>),
                          StreamBlock("DATA", 64, 2, 1, <<0, 1, 0, 2>>),
                          IndexBlock([Index64 EXCEPT !.type_sizes = <<1, 2, 8, 10, 4, 12, 6>>],
                                     64),
                          EndBlock >>]
      [] path = "noend.blend" ->
           [hdr |-> Header277,
            stream |-> << WorldBlock(16, 0, NameWOA, 5), IndexBlock(Index64, 64) >>]
      [] path = "text.txt" ->
           [hdr |-> HeaderBad, stream |-> << >>]

(***************************************************************************)
(* BlenderFile: opening                                                    *)
(***************************************************************************)
\* BlenderFile._parse_header: None, or the BlendFileHeader
parse_header(header) ==
    IF Len(header) # 12 \/ Slice(header, 0, 7) # <<66, 76, 69, 78, 68, 69, 82>>
    THEN None
    ELSE LET arch == Slice(header, 7, 8)
             endian == Slice(header, 8, 9)
             version == [i \in 1..3 |-> At(header, 8 + i) - 48]
         IN IF arch \notin {<<45>>, <<95>>} THEN None
            ELSE IF endian \notin {<<118>>, <<86>>} THEN None
            ELSE [version |-> version,
                  arch |-> IF arch = <<45>> THEN "X64" ELSE "X32",
                  endian |-> IF endian = <<118>> THEN "Little" ELSE "Big"]

\* struct.calcsize of the block header format '4siPii' for the file's pointer width
header_block_size(header) == 4 + 4 + CodeSize(ArchValue(header.arch)) + 4 + 4

\* the file position of the header of the k-th block of the stream (k from 1)
RECURSIVE HeadPos(_, _, _)
HeadPos(header, stream, k) ==
    IF k = 1 THEN 12
    ELSE HeadPos(header, stream, k - 1) + header_block_size(header) + stream[k - 1].head.size

\* the loop of BlenderFile._parse_blocks from the k-th block on
RECURSIVE ScanBlocks(_, _, _, _, _, _)
ScanBlocks(header, stream, k, pairs, blend_index, end_found) ==
    IF k > Len(stream) \/ end_found
    THEN [pairs |-> pairs, blend_index |-> blend_index, end_found |-> end_found]
    ELSE LET block_head == stream[k].head
             pos == HeadPos(header, stream, k) + header_block_size(header)
         IN CASE block_head.code = "DNA1" ->
                   ScanBlocks(header, stream, k + 1, pairs, stream[k].data, end_found)
              [] block_head.code = "ENDB" ->
                   ScanBlocks(header, stream, k + 1, pairs, blend_index, TRUE)
              [] OTHER ->
                   ScanBlocks(header, stream, k + 1,
                              Append(pairs, [block |-> block_head, offset |-> pos]),
                              blend_index, end_found)

\* BlenderFile._parse_blocks: the block table and the index, or an import failure
parse_blocks(header, stream) ==
    With(ScanBlocks(header, stream, 1, << >>, None, FALSE), LAMBDA r :
        IF r.blend_index = None THEN Raise("BlenderFileImportException")
        ELSE IF ~r.end_found THEN Raise("BlenderFileImportException")
        ELSE Value([blocks |-> r.pairs, index |-> r.blend_index]))

\* BlenderFile.__init__ up to the construction of the object
OpenOutcome(path) ==
    With(parse_header(Disk(path).hdr), LAMBDA header :
        IF header = None THEN Raise("BlenderFileImportException")
        ELSE Try(parse_blocks(header, Disk(path).stream), LAMBDA parsed :
                 Value([path |-> path, header |-> header, blocks |-> parsed.blocks,
                        index |-> parsed.index, closed |-> FALSE])))

\* BlenderFile._read_block: seek to the payload and read block.size bytes of it
read_block(file, block, offset) ==
    IF file.closed THEN Raise("ValueError")
    ELSE With(Disk(file.path).stream, LAMBDA stream :
             Value(Slice(stream[CHOOSE k \in 1..Len(stream) :
                                   HeadPos(file.header, stream, k)
                                     + header_block_size(file.header) = offset].data,
                         0, block.size)))

(***************************************************************************)
(* The block scan on the bytes of a file.  Here a file is its header and   *)
(* a run of cells of header_block_size bytes, then perhaps a few more      *)
(* bytes (tail).  The payload sizes are multiples of the cell size, so the *)
(* reader is always at the start of a cell, and every cell decodes as a    *)
(* block header when the scan reads one there.  A cell that holds an index *)
(* starts with b'SDNANAME': read as a block header its code is b'SDNA' and *)
(* its size the four bytes b'NAME'.                                        *)
(***************************************************************************)
\* the largest number of cells of a file
MaxCells == 5

HeaderCell(header, code, n) ==
    [head |-> BlockHeader(code, n * header_block_size(header), 64, 0, 1), index |-> FALSE]

IndexCell == [head |-> BlockHeader("SDNA", 1162690894, 0, 0, 0), index |-> TRUE]

RawCells(header) ==
    {HeaderCell(header, "DATA", n) : n \in {-4, -1, 0, 1, 4}}
        \cup {HeaderCell(header, "DNA1", n) : n \in {0, 1}}
        \cup {HeaderCell(header, "ENDB", 0), IndexCell}

\* the files the scan is run on: the tail is absent, or the first ten bytes of
\* an index
RawFiles(header) ==
    {[header |-> header, cells |-> cells, tail |-> tail] :
        cells \in UNION {[1..n -> RawCells(header)] : n \in 0..MaxCells},
        tail \in {"none", "index"}}

\* handle.seek(0, SEEK_END)
raw_end(raw) ==
    12 + header_block_size(raw.header) * Len(raw.cells)
       + (IF raw.tail = "none" THEN 0 ELSE 10)

\* the number of bytes handle.read(n) returns at position pos, for n >= 0
read_len(raw, pos, n) == Min(n, IF raw_end(raw) > pos THEN raw_end(raw) - pos ELSE 0)

\* the cell that starts at position pos
cell_at(raw, pos) == raw.cells[(pos - 12) \div header_block_size(raw.header) + 1]

\* whether the bytes at position pos are the start of an index
starts_index(raw, pos) ==
    IF pos + header_block_size(raw.header) <= raw_end(raw)
    THEN cell_at(raw, pos).index
    ELSE pos < raw_end(raw) /\ raw.tail = "index"

\* an index parser that leaves the reader where its read ended
parse_index_no_rewind(raw, pos, head) ==
    IF head.size < -1 THEN [pos |-> pos, out |-> Raise("ValueError")]
    ELSE With(read_len(raw, pos, head.size), LAMBDA n :
             IF n < 8 \/ ~starts_index(raw, pos)
             THEN [pos |-> pos + n, out |-> Raise("BlenderFileImportException")]
             ELSE IF n < header_block_size(raw.header)
                  THEN [pos |-> pos + n, out |-> Raise("struct.error")]
                  ELSE [pos |-> pos + n, out |-> Value(Index64)])

\* BlenderFile._parse_index with the reader at pos: the position it leaves the
\* reader at, and its outcome.  handle.read refuses a length below -1; fewer than
\* eight bytes, or other bytes than b'SDNANAME', are a malformed index; an index
\* that is cut short fails in unpack_from; otherwise the reader is put back
parse_index(raw, pos, head) ==
    IF head.size < -1 THEN [pos |-> pos, out |-> Raise("ValueError")]
    ELSE With(read_len(raw, pos, head.size), LAMBDA n :
             IF n < 8 \/ ~starts_index(raw, pos)
             THEN [pos |-> pos + n, out |-> Raise("BlenderFileImportException")]
             ELSE IF n < header_block_size(raw.header)
                  THEN [pos |-> pos + n, out |-> Raise("struct.error")]
                  ELSE [pos |-> pos, out |-> Value(Index64)])

\* the local variables of _parse_blocks when the loop is entered
scan_start(raw) ==
    [op |-> "_parse_blocks", file |-> raw, pos |-> 12, pairs |-> << >>,
     blend_index |-> None, end_found |-> FALSE, seen |-> {}, parsed |-> None,
     out |-> Outcome("running", None)]

\* a table entry that records the position after the payload
scan_record_after(pairs, block_head, pos) ==
    Append(pairs, [block |-> block_head, offset |-> pos + block_head.size])

\* block_head_offset_pairs.append((block_head, handle.seek(0, SEEK_CUR)))
scan_record(pairs, block_head, pos) == Append(pairs, [block |-> block_head, offset |-> pos])

\* handle.seek(block_head.size, SEEK_CUR): a position below zero is refused
scan_seek(s, block_head, pos) ==
    IF pos + block_head.size < 0
    THEN [s EXCEPT !.pos = pos, !.out = Raise("OSError")]
    ELSE [s EXCEPT !.pos = pos + block_head.size]

\* the DNA1 branch, on what _parse_index did
scan_index(s, block_head, pos, r) ==
    IF r.out.kind # "value"
    THEN [s EXCEPT !.pos = r.pos, !.out = r.out,
                   !.parsed = [entry |-> pos, exit |-> r.pos, out |-> r.out]]
    ELSE scan_seek([s EXCEPT !.blend_index = r.out.val,
                             !.parsed = [entry |-> pos, exit |-> r.pos, out |-> r.out]],
                   block_head, r.pos)

\* the body of the loop after the header was read, with the reader at pos
scan_dispatch(s, block_head, pos) ==
    CASE block_head.code = "DNA1" ->
           scan_index(s, block_head, pos, parse_index(s.file, pos, block_head))
      [] block_head.code = "ENDB" ->
           scan_seek([s EXCEPT !.end_found = TRUE], block_head, pos)
      [] OTHER ->
           scan_seek([s EXCEPT !.pairs = scan_record(s.pairs, block_head, pos)],
                     block_head, pos)

\* the statements after the loop
scan_exit(s) ==
    [s EXCEPT !.out = IF s.blend_index = None THEN Raise("BlenderFileImportException")
                      ELSE IF ~s.end_found THEN Raise("BlenderFileImportException")
                      ELSE Value([blocks |-> s.pairs, index |-> s.blend_index])]

\* the test of the loop of _parse_blocks and one iteration: BlockHeader.unpack
\* fails on a buffer shorter than the header
scan_iteration(s) ==
    IF s.pos = raw_end(s.file) \/ s.end_found THEN scan_exit(s)
    ELSE With(read_len(s.file, s.pos, header_block_size(s.file.header)), LAMBDA n :
             IF n < header_block_size(s.file.header)
             THEN [s EXCEPT !.pos = s.pos + n, !.seen = s.seen \cup {s.pos},
                            !.parsed = None, !.out = Raise("struct.error")]
             ELSE scan_dispatch([s EXCEPT !.seen = s.seen \cup {s.pos}, !.parsed = None],
                                cell_at(s.file, s.pos).head,
                                s.pos + header_block_size(s.file.header)))

(***************************************************************************)
(* Structure layout compiler                                               *)
(***************************************************************************)
\* BlenderFile._struct_lookup
struct_lookup(file, index) ==
    LET structures == file.index.structures
        found == {i \in 1..Len(structures) : structures[i].index = index}
    IN IF found # {}
       THEN Value(structures[CHOOSE i \in found : \A j \in found : i <= j])
       ELSE IF index > Len(file.index.type_names) \/ index < 0
            THEN Raise("BlenderFileReadException")
            ELSE IF index = Len(file.index.type_names)
                 THEN Raise("IndexError")
                 ELSE Raise("BlenderFileReadException")

\* name.lstrip('*')
RECURSIVE LStripStar(_)
LStripStar(name) ==
    IF name # << >> /\ Head(name) = "*" THEN LStripStar(Tail(name)) ELSE name

\* the end of the run of digits that starts at position i (the position after it)
RECURSIVE DigitsEnd(_, _)
DigitsEnd(name, i) ==
    IF i <= Len(name) /\ IsDigit(name[i]) THEN DigitsEnd(name, i + 1) ELSE i

\* the positions of the '[' of the matches of the pattern \[(\d+)\] in name
ArrayMatches(name) ==
    {i \in 1..Len(name) :
        /\ name[i] = "["
        /\ DigitsEnd(name, i + 1) > i + 1
        /\ DigitsEnd(name, i + 1) <= Len(name)
        /\ name[DigitsEnd(name, i + 1)] = "]"}

RECURSIVE DimProduct(_, _)
DimProduct(name, starts) ==
    IF starts = {} THEN 1
    ELSE LET i == CHOOSE i \in starts : TRUE
         IN IntOf(SubSeq(name, i + 1, DigitsEnd(name, i + 1) - 1))
              * DimProduct(name, starts \ {i})

\* the second half of an iteration of the loop of _export_struct: the array part,
\* on the name and size the pointer part left
export_array(name, type, size, is_ptr) ==
    IF name[Len(name)] = "]"
    THEN With(DimProduct(name, ArrayMatches(name)), LAMBDA count :
             [name |-> Slice(name, 0, IndexOf(name, "[")), type |-> type,
              size |-> size * count, ptr |-> is_ptr, count |-> count])
    ELSE [name |-> name, type |-> type, size |-> size, ptr |-> is_ptr, count |-> 1]

\* a resolver that gives every pointer field the size of one pointer and arity 1
export_field_flat(file, dna) ==
    With(At(file.index.field_names, dna.index_name), LAMBDA name :
        IF name[1] = "*"
        THEN [export_array(LStripStar(name), At(file.index.type_names, dna.index_type),
                           1, TRUE)
                EXCEPT !.size = IF file.header.arch = "X64" THEN 8 ELSE 4, !.count = 1]
        ELSE export_array(name, At(file.index.type_names, dna.index_type),
                          At(file.index.type_sizes, dna.index_type), FALSE))

\* one iteration of the loop of BlenderFile._export_struct: the BlendStructField
export_field(file, dna) ==
    With(At(file.index.field_names, dna.index_name), LAMBDA name :
        IF name[1] = "*"
        THEN export_array(LStripStar(name), At(file.index.type_names, dna.index_type),
                          IF file.header.arch = "X64" THEN 8 ELSE 4, TRUE)
        ELSE export_array(name, At(file.index.type_names, dna.index_type),
                          At(file.index.type_sizes, dna.index_type), FALSE))

\* BlenderFile._export_struct: the BlendStruct
export_struct(file, struct) ==
    [name |-> At(file.index.type_names, struct.index),
     fields |-> [i \in 1..Len(struct.fields) |-> export_field(file, struct.fields[i])]]

\* fix_name of compile_fmt
fix_name(n) == IF n # << >> /\ n[1] = "_" THEN <<"f">> \o n ELSE n

PtrPrefix == <<"p", "t", "r", "_">>

\* the names compile_fmt generates for one field, before the pointer prefix
fmt_names_of(f) ==
    IF f.count > 1 /\ f.type # "char"
    THEN [i \in 1..f.count |->
            fix_name(f.name \o <<"_">> \o StrOf(i - 1) \o <<"_">> \o StrOf(f.count))]
    ELSE <<fix_name(f.name)>>

\* the names compile_fmt generates for one field
fmt_field_names(f) ==
    IF f.ptr THEN With(fmt_names_of(f), LAMBDA name :
                      [i \in 1..Len(name) |-> PtrPrefix \o name[i]])
    ELSE IF f.type \in DOMAIN BASE_TYPES THEN fmt_names_of(f)
    ELSE << >>

\* the piece of format string compile_fmt generates for one field: a repeat count
\* (written with str and read back by Struct) and a format character
fmt_field_item(f) ==
    IF f.ptr THEN [n |-> IntOf(StrOf(f.count)), c |-> "P"]
    ELSE IF f.type \in DOMAIN BASE_TYPES
         THEN IF f.type = "char" /\ f.count > 1
              THEN [n |-> IntOf(StrOf(f.count)), c |-> "s"]
              ELSE [n |-> IntOf(StrOf(f.count)), c |-> BASE_TYPES[f.type]]
         ELSE [n |-> IntOf(StrOf(f.size)), c |-> "x"]

\* BlenderObjectFactory.compile_fmt
compile_fmt(fields) ==
    [fmt |-> [i \in 1..Len(fields) |-> fmt_field_item(fields[i])],
     fmt_names |-> Concat([i \in 1..Len(fields) |-> fmt_field_names(fields[i])])]

\* the NamedStruct of a layout: endian.value + fmt.replace('P', arch.value)
named_struct(header, compiled) ==
    [endian |-> EndianValue(header.endian),
     items |-> [i \in 1..Len(compiled.fmt) |->
                  IF compiled.fmt[i].c = "P"
                  THEN [n |-> compiled.fmt[i].n, c |-> ArchValue(header.arch)]
                  ELSE compiled.fmt[i]],
     names |-> compiled.fmt_names]

\* Struct.size
format_size(FMT) == SumSeq([i \in 1..Len(FMT.items) |-> FMT.items[i].n * CodeSize(FMT.items[i].c)])

(***************************************************************************)
(* Decoding bytes with a NamedStruct                                       *)
(***************************************************************************)
\* the unsigned value of bytes, most significant first
RECURSIVE BigEndian(_)
BigEndian(bs) ==
    IF bs = << >> THEN 0 ELSE 256 * BigEndian(SubSeq(bs, 1, Len(bs) - 1)) + bs[Len(bs)]

Reverse(s) == [i \in 1..Len(s) |-> s[Len(s) + 1 - i]]

\* the value of bytes given most significant first: two's complement for the
\* signed codes
int_from(msf, c) ==
    IF c \in {"h", "i", "l", "q"} /\ msf[1] >= 128
    THEN 0 - (BigEndian([i \in 1..Len(msf) |-> 255 - msf[i]]) + 1)
    ELSE BigEndian(msf)

\* one number of the format
unpack_int(bs, endian, c) == int_from(IF endian = "<" THEN Reverse(bs) ELSE bs, c)

\* the values one item of the format yields from the bytes at offset off
unpack_item(item, endian, data, off) ==
    CASE item.c = "x" -> << >>
      [] item.c = "s" -> <<PyBytes(Slice(data, off, off + item.n))>>
      [] item.c = "c" -> [i \in 1..item.n |-> PyBytes(Slice(data, off + i - 1, off + i))]
      [] item.c \in {"f", "d"} ->
           [i \in 1..item.n |->
              PyBytes(Slice(data, off + (i - 1) * CodeSize(item.c), off + i * CodeSize(item.c)))]
      [] OTHER ->
           [i \in 1..item.n |->
              PyInt(unpack_int(Slice(data, off + (i - 1) * CodeSize(item.c),
                                     off + i * CodeSize(item.c)),
                               endian, item.c))]

\* Struct.unpack of exactly format_size bytes
RECURSIVE unpack_items(_, _, _, _)
unpack_items(items, endian, data, off) ==
    IF items = << >> THEN << >>
    ELSE unpack_item(Head(items), endian, data, off)
           \o unpack_items(Tail(items), endian, data,
                           off + Head(items).n * CodeSize(Head(items).c))

\* Struct.unpack of the k-th run of y bytes of data
unpack_row(FMT, data, y, k) ==
    unpack_items(FMT.items, FMT.endian, Slice(data, k * y, (k + 1) * y), 0)

\* the namedtuple of a row: the row has to have as many values as there are names
named_rows(FMT, rows) ==
    IF \E k \in 1..Len(rows) : Len(rows[k]) # Len(FMT.names) THEN Raise("TypeError")
    ELSE Value([k \in 1..Len(rows) |-> PyRow(rows[k])])

named_row(FMT, row) ==
    IF Len(row) # Len(FMT.names) THEN Raise("TypeError") ELSE Value(row)

\* NamedStruct.unpack of x bytes with a format of y bytes: one row of values, or
\* a tuple of rows when the data is a multiple of the format size
unpack_sized(FMT, data, x, y) ==
    IF x > y /\ y = 0 THEN Raise("ZeroDivisionError")
    ELSE IF x > y /\ x % y = 0
         THEN named_rows(FMT, [k \in 1..(x \div y) |-> unpack_row(FMT, data, y, k - 1)])
         ELSE IF x # y THEN Raise("struct.error")
              ELSE named_row(FMT, unpack_row(FMT, data, y, 0))

\* NamedStruct.unpack
unpack(FMT, data) == unpack_sized(FMT, data, Len(data), format_size(FMT))

\* whether the pattern (.+)_\d+_(\d+) matches name with its first '_' at k, the
\* first run of digits ending before j
template_at(name, k, j) ==
    /\ name[k] = "_"
    /\ j > k + 1
    /\ j < Len(name)
    /\ name[j] = "_"
    /\ IsDigit(name[j + 1])

\* the match of (.+)_\d+_(\d+) in a name: the position of the first '_' of the
\* match with the longest group 1, or 0 when the name does not match
template_match(name) ==
    With({k \in 2..Len(name) : template_at(name, k, DigitsEnd(name, k + 1))},
         LAMBDA ks : IF ks = {} THEN 0 ELSE Max(ks))

\* the two groups of the match at k
template_field_name(name, k) == SubSeq(name, 1, k - 1)

template_array_len(name, k) ==
    With(DigitsEnd(name, k + 1), LAMBDA j :
        IntOf(SubSeq(name, j + 1, DigitsEnd(name, j + 1) - 1)))

RECURSIVE set_fields(_, _, _, _)

\* the branch of _set_fields for a name that matches the template at k: array_len
\* values make one tuple attribute
set_array_field(names, data, i, attrs, k, array_len) ==
    With(IF array_len > 1 THEN i + array_len - 1 ELSE i, LAMBDA last :
        IF last > Min(Len(names), Len(data)) THEN attrs
        ELSE set_fields(names, data, last + 1,
                        (template_field_name(names[i], k)
                           :> PyTuple(SubSeq(data, i, last))) @@ attrs))

\* BlenderObject._set_fields from the i-th (name, value) pair on; the loop ends
\* when zip(names, data) is exhausted
set_fields(names, data, i, attrs) ==
    IF i > Min(Len(names), Len(data)) THEN attrs
    ELSE With(template_match(names[i]), LAMBDA k :
             IF k = 0
             THEN set_fields(names, data, i + 1, (names[i] :> data[i]) @@ attrs)
             ELSE set_array_field(names, data, i, attrs, k,
                                  template_array_len(names[i], k)))

(***************************************************************************)
(* Layouts (the BlenderObject subclasses) and Records (their instances).   *)
(*                                                                         *)
(* The operators below take and return the part of the heap they change:   *)
(* w = [layouts, ObjectCACHE], where layouts maps the identity of every    *)
(* layout that has not been collected to the layout, and ObjectCACHE is    *)
(* BlenderObject.CACHE: version -> name -> weak reference, which is the    *)
(* identity referred to, or 0 once the referent has been collected.  They  *)
(* return [w, out].                                                        *)
(***************************************************************************)
Return(w, out) == [w |-> w, out |-> out]

\* the same for a call that works on the heap: the rest runs on the heap the call
\* left and on the value it returned
Then(r, rest(_, _)) == IF r.out.kind # "value" THEN r ELSE rest(r.w, r.out.val)

\* an outcome that needs no heap, inside a computation on heap w
TryW(w, o, rest(_)) == IF o.kind # "value" THEN Return(w, o) ELSE rest(o.val)

\* a lookup that never finds the entry: every call is a miss
cache_get_miss(cache, version, name) == 0

\* cache.get(version).get(name, type(None))(): the identity of the referent, or 0
\* (None) when there is no entry or the weak reference of the entry is dead
cache_get(cache, version, name) ==
    IF version \in DOMAIN cache /\ name \in DOMAIN cache[version]
    THEN cache[version][name]
    ELSE 0

\* the identity a new object gets in a heap: the lowest one that is free
FreeId(heap) == Lowest((1..(Cardinality(DOMAIN heap) + 1)) \ DOMAIN heap)

RECURSIVE build_object_type(_, _, _)
RECURSIVE build_dependencies(_, _, _, _, _, _, _)

\* step 2 of _build_object_type from the i-th field on: the nested structure types
build_dependencies(w, file, fields, dnas, i, offset, dependencies) ==
    IF i > Min(Len(fields), Len(dnas)) THEN Return(w, Value(dependencies))
    ELSE IF fields[i].type \notin DOMAIN BASE_TYPES /\ ~fields[i].ptr
         THEN TryW(w, struct_lookup(file, dnas[i].index_type), LAMBDA tmp_dna :
                  Then(build_object_type(w, file, tmp_dna), LAMBDA w2, cls :
                      build_dependencies(
                          w2, file, fields, dnas, i + 1, offset + fields[i].size,
                          Append(dependencies,
                                 [cls |-> cls, lo |-> offset,
                                  hi |-> offset + fields[i].size,
                                  name |-> fields[i].name]))))
         ELSE build_dependencies(w, file, fields, dnas, i + 1, offset + fields[i].size,
                                 dependencies)

\* the class statement of _build_object_type: the new layout gets the identity id
\* and the weak reference of the cache entry of its name
new_layout(w, file, exported, dependencies, id) ==
    Return([w EXCEPT
              !.layouts =
                 (id :> [name |-> exported.name,
                         VERSION |-> file.header.version,
                         FMT |-> named_struct(file.header, compile_fmt(exported.fields)),
                         CLASSES |-> dependencies,
                         lookups |-> [n \in {exported.fields[i].name :
                                               i \in {j \in 1..Len(exported.fields) :
                                                        exported.fields[j].ptr}}
                                        |-> None]]) @@ @,
              !.ObjectCACHE[file.header.version] = (exported.name :> id) @@ @],
           Value(id))

\* _build_object_type on a heap in which the cache has a dictionary for the version
build_object_type_in(w, file, struct_dna, object_type) ==
    IF object_type # 0 THEN Return(w, Value(object_type))
    ELSE With(export_struct(file, struct_dna), LAMBDA exported :
             Then(build_dependencies(w, file, exported.fields, struct_dna.fields,
                                     1, 0, << >>),
                  LAMBDA w2, dependencies :
                      new_layout(w2, file, exported, dependencies, FreeId(w2.layouts))))

\* BlenderObjectFactory._build_object_type: the cached layout of the structure's
\* name for the file's version, or a new one compiled from the file's schema
build_object_type(w, file, struct_dna) ==
    With(IF file.header.version \in DOMAIN w.ObjectCACHE THEN w
         ELSE [w EXCEPT !.ObjectCACHE = (file.header.version :> << >>) @@ @],
         LAMBDA w1 :
             build_object_type_in(
                 w1, file, struct_dna,
                 cache_get(w1.ObjectCACHE, file.header.version,
                           At(file.index.type_names, struct_dna.index))))

RECURSIVE new_object(_, _, _, _)
RECURSIVE new_children(_, _, _, _, _, _)

\* the loop of BlenderObject.__new__ over CLASSES from the i-th entry on: the
\* nested Records, by attribute name
new_children(layouts, CLASSES, file, data, i, children) ==
    IF i > Len(CLASSES) THEN Value(children)
    ELSE Try(new_object(layouts, CLASSES[i].cls, file,
                        Slice(data, CLASSES[i].lo, CLASSES[i].hi)),
             LAMBDA obj_ :
                 new_children(layouts, CLASSES, file, data, i + 1,
                              (CLASSES[i].name :> obj_)
                                 @@ [n \in DOMAIN children \ {CLASSES[i].name}
                                       |-> children[n]]))

\* BlenderObject.__new__: the Record decoded from data with layout cls; file is
\* the weak reference to the parent file
new_object(layouts, cls, file, data) ==
    Try(new_children(layouts, layouts[cls].CLASSES, file, data, 1, << >>),
        LAMBDA children :
            Try(unpack(layouts[cls].FMT, data), LAMBDA row :
                Value([type |-> cls, file |-> file,
                       attrs |-> set_fields(layouts[cls].FMT.names, row, 1, children)])))

\* the Records of the runs of step bytes of a block of several structures: the
\* list comprehension over range(0, size, step) from its k-th turn on
RECURSIVE new_objects(_, _, _, _, _, _, _, _)
new_objects(layouts, cls, file, data, size, step, k, objs) ==
    IF k * step >= size THEN Value(PyTuple(objs))
    ELSE Try(new_object(layouts, cls, file, Slice(data, k * step, (k + 1) * step)),
             LAMBDA obj :
                 new_objects(layouts, cls, file, data, size, step, k + 1,
                             Append(objs, obj)))

\* the end of _from_address: one Record, or the tuple of the Records of the block
from_block(w, cls, fid, block, block_data) ==
    IF block.count = 1
    THEN Return(w, new_object(w.layouts, cls, fid, block_data))
    ELSE IF format_size(w.layouts[cls].FMT) = 0 THEN Return(w, Raise("ValueError"))
         ELSE Return(w, new_objects(w.layouts, cls, fid, block_data, block.size,
                                    format_size(w.layouts[cls].FMT), 0, << >>))

\* _from_address once the loop over the block table has found the entry
from_entry(w, file, fid, entry, sdna) ==
    IF sdna < 0 \/ sdna >= Len(file.index.structures) THEN Return(w, Raise("IndexError"))
    ELSE TryW(w, read_block(file, entry.block, entry.offset), LAMBDA block_data :
             Then(build_object_type(w, file, At(file.index.structures, sdna)),
                  LAMBDA w2, cls : from_block(w2, cls, fid, entry.block, block_data)))

\* a lookup that answers an address no block records with None instead of raising
from_hits_or_none(w, file, fid, hits) ==
    IF hits = {} THEN Return(w, Value(None))
    ELSE With(file.blocks[Max(hits)], LAMBDA entry :
             from_entry(w, file, fid, entry,
                        IF entry.block.sdna < 0
                        THEN entry.block.sdna + Len(file.index.structures)
                        ELSE entry.block.sdna))

\* the loop of _from_address: it runs over the whole table, so the last entry with
\* the address is the one it uses
from_hits(w, file, fid, hits) ==
    IF hits = {} THEN Return(w, Raise("BlenderFileReadException"))
    ELSE With(file.blocks[Max(hits)], LAMBDA entry :
             from_entry(w, file, fid, entry,
                        IF entry.block.sdna < 0
                        THEN entry.block.sdna + Len(file.index.structures)
                        ELSE entry.block.sdna))

\* BlenderFile._from_address of a file object (file) whose identity is fid
from_address(w, file, fid, ptr) ==
    from_hits(w, file, fid, {i \in 1..Len(file.blocks) : file.blocks[i].block.addr = ptr})

\* BlenderFile._from_addresses from the i-th address on
RECURSIVE from_addresses(_, _, _, _, _, _)
from_addresses(w, file, fid, ptr_list, i, found) ==
    IF i > Len(ptr_list) THEN Return(w, Value(PyList(found)))
    ELSE IF ptr_list[i] = PyInt(0)
         THEN from_addresses(w, file, fid, ptr_list, i + 1, Append(found, None))
         ELSE Then(from_address(w, file, fid, ptr_list[i].int), LAMBDA w2, obj :
                  from_addresses(w2, file, fid, ptr_list, i + 1, Append(found, obj)))

\* BlenderObject.file
object_file(files, obj) ==
    IF obj.file \in DOMAIN files THEN Value(obj.file) ELSE Raise("RuntimeError")

\* the end of AddressLookup.__get__: the descriptor keeps the value it resolved
lookup_resolved(instance, name, resolved) ==
    Then(resolved, LAMBDA w2, value :
        Return([w2 EXCEPT !.layouts[instance.type].lookups[name] = value], Value(value)))

\* AddressLookup.__get__ of the descriptor of pointer field name, read on instance;
\* the descriptor is an attribute of the layout and keeps the last value it resolved
address_lookup_get(w, files, instance, name) ==
    IF PtrPrefix \o name \notin DOMAIN instance.attrs
    THEN Return(w, Raise("AttributeError"))
    ELSE With(instance.attrs[PtrPrefix \o name], LAMBDA ptr :
        IF IsInt(ptr) /\ ptr.int # 0
        THEN TryW(w, object_file(files, instance), LAMBDA file :
                 lookup_resolved(instance, name,
                                 from_address(w, files[file], file, ptr.int)))
        ELSE IF IsTuple(ptr)
        THEN TryW(w, object_file(files, instance), LAMBDA file :
                 lookup_resolved(instance, name,
                                 from_addresses(w, files[file], file, ptr.tuple,
                                                1, << >>)))
        ELSE Return(w, Value(w.layouts[instance.type].lookups[name])))

\* getattr(obj, name) for a field name: the pointer descriptor of the layout
\* comes before the instance's own attributes
get_attr(w, files, obj, name) ==
    IF ~IsRecord(obj) THEN Return(w, Raise("AttributeError"))
    ELSE IF name \in DOMAIN w.layouts[obj.type].lookups
         THEN address_lookup_get(w, files, obj, name)
         ELSE IF name \in DOMAIN obj.attrs THEN Return(w, Value(obj.attrs[name]))
              ELSE Return(w, Raise("AttributeError"))

RECURSIVE object_eq_from(_, _, _, _, _)

\* one turn of the loop of BlenderObject.__eq__ on attribute name; the loop goes
\* on at the next-th name
object_eq_step(names, self, other, name, next, eq) ==
    IF name \notin DOMAIN self.attrs \/ name \notin DOMAIN other.attrs
    THEN Raise("AttributeError")
    ELSE IF next > Len(names) + 1 THEN Raise("StopIteration")
         ELSE object_eq_from(names, self, other, next,
                             eq \/ (self.attrs[name] = other.attrs[name]))

\* BlenderObject.__eq__ from the i-th name of FMT.names on
object_eq_from(names, self, other, i, eq) ==
    IF i > Len(names) THEN Value(eq)
    ELSE With(template_match(names[i]), LAMBDA k :
             IF k = 0 THEN object_eq_step(names, self, other, names[i], i + 1, eq)
             ELSE object_eq_step(names, self, other, template_field_name(names[i], k),
                                 IF template_array_len(names[i], k) < 1 THEN i + 1
                                 ELSE i + template_array_len(names[i], k),
                                 eq))

\* BlenderObject.__eq__
object_eq(layouts, self, other) ==
    IF ~IsRecord(other) \/ other.type # self.type THEN Value(FALSE)
    ELSE object_eq_from(layouts[self.type].FMT.names, self, other, 1, FALSE)

(***************************************************************************)
(* BlenderObjectFactory                                                    *)
(***************************************************************************)
\* the end of BlenderObjectFactory.__init__, for the structure at sdna_index
factory_of(w, file, fid, sdna_index, struct_dna) ==
    Then(build_object_type(w, file, struct_dna), LAMBDA w2, object_type :
        Return(w2, Value([file_ref |-> fid, struct_dna |-> struct_dna,
                          sdna_index |-> sdna_index,
                          has_name |-> "ID" \in {At(file.index.type_names,
                                                    struct_dna.fields[i].index_type) :
                                                   i \in 1..Len(struct_dna.fields)},
                          object_type |-> object_type,
                          object_name |-> At(file.index.type_names, struct_dna.index)])))

\* BlenderObjectFactory.__init__: the loop looks for the structure of the type
\* name; without one, self.struct_dna is never set and reading it fails
factory_init(w, file, fid, type_name_index) ==
    With({i \in 1..Len(file.index.structures) :
            file.index.structures[i].index = type_name_index},
         LAMBDA found :
             IF found = {} THEN Return(w, Raise("AttributeError"))
             ELSE factory_of(w, file, fid, Lowest(found) - 1,
                             file.index.structures[Lowest(found)]))

\* BlenderObjectFactory.file
factory_file(files, self) ==
    IF self.file_ref \in DOMAIN files THEN Value(self.file_ref) ELSE Raise("RuntimeError")

\* the entries of blocks that hold one structure only
matching_blocks_single(file, self) ==
    SelectSeq(file.blocks, LAMBDA e : e.block.sdna = self.sdna_index /\ e.block.count = 1)

\* the block table entries a factory counts and decodes
matching_blocks(file, self) ==
    SelectSeq(file.blocks, LAMBDA e : e.block.sdna = self.sdna_index)

\* BlenderObjectFactory.__len__
factory_len(files, self) ==
    Try(factory_file(files, self), LAMBDA file :
        Value(PyInt(Len(matching_blocks(files[file], self)))))

\* BlenderObjectFactory.__repr__
factory_repr(files, self) ==
    Try(factory_file(files, self), LAMBDA file :
        Value([repr |-> At(files[file].index.type_names, self.struct_dna.index)]))

\* one step of the generator BlenderObjectFactory.__iter__: the Record of an entry
factory_yield(layouts, file, self, entry) ==
    Try(read_block(file, entry.block, entry.offset), LAMBDA data :
        new_object(layouts, self.object_type, self.file_ref, data))

\* the generator from its i-th entry on
RECURSIVE iter_from(_, _, _, _, _, _)
iter_from(layouts, file, self, entries, i, objs) ==
    IF i > Len(entries) THEN Value(PyList(objs))
    ELSE Try(factory_yield(layouts, file, self, entries[i]), LAMBDA obj :
             iter_from(layouts, file, self, entries, i + 1, Append(objs, obj)))

\* BlenderObjectFactory.__iter__ run to its end: the Records in block-table order
factory_iter(layouts, files, self) ==
    Try(factory_file(files, self), LAMBDA file :
        iter_from(layouts, files[file], self, matching_blocks(files[file], self),
                  1, << >>))

\* ord() of the characters a name is given in
Ord(c) == CASE c = "A" -> 65 [] c = "B" -> 66 [] c = "S" -> 83 [] c = "T" -> 84
            [] c = "Z" -> 90

\* str.encode
encode(name) == [i \in 1..Len(name) |-> Ord(name[i])]

RECURSIVE find_from(_, _, _, _, _, _)

\* the comparison of find_by_name for the Record obj of the i-th entry, whose
\* id.name is n, a bytes value with its first zero byte at zero
find_match(w, files, self, entries, name_bytes, i, obj, n, zero) ==
    IF zero < 0 THEN Return(w, Raise("ValueError"))
    ELSE IF IsBytes(n) /\ Slice(n.bytes, 2, zero) = name_bytes
         THEN Return(w, Value(obj))
         ELSE find_from(w, files, self, entries, name_bytes, i + 1)

\* the loop of BlenderObjectFactory.find_by_name from the i-th matching entry on
find_from(w, files, self, entries, name_bytes, i) ==
    IF i > Len(entries) THEN Return(w, Raise("KeyError"))
    ELSE TryW(w, factory_yield(w.layouts, files[self.file_ref], self, entries[i]),
              LAMBDA obj :
        Then(get_attr(w, files, obj, <<"i", "d">>), LAMBDA w2, id :
            Then(get_attr(w2, files, id, <<"n", "a", "m", "e">>), LAMBDA w3, n :
                IF IsBytes(n)
                THEN find_match(w3, files, self, entries, name_bytes, i, obj, n,
                                IndexOf(n.bytes, 0))
                ELSE IF IsTuple(n)
                THEN find_match(w3, files, self, entries, name_bytes, i, obj, n,
                                IndexOf(n.tuple, PyInt(0)))
                ELSE Return(w3, Raise("AttributeError")))))

\* BlenderObjectFactory.find_by_name
find_by_name(w, files, self, name) ==
    IF ~self.has_name THEN Return(w, Raise("BlenderFileReadException"))
    ELSE TryW(w, factory_file(files, self), LAMBDA file :
             find_from(w, files, self, matching_blocks(files[file], self),
                       encode(name), 1))

(***************************************************************************)
(* BlenderFile: schema introspection                                       *)
(***************************************************************************)
\* one line of the tree: a field of a structure at an indent level
tree_line(file, f, indent_level) ==
    [indent |-> indent_level,
     type |-> At(file.index.type_names, f.index_type),
     field |-> At(file.index.field_names, f.index_name)]

\* field_lookup of BlenderFile.tree: the lines of the fields of struct
RECURSIVE field_lookup(_, _, _, _, _)
field_lookup(file, struct, indent_level, recursive, max_level) ==
    Concat([i \in 1..Len(struct.fields) |->
              <<tree_line(file, struct.fields[i], indent_level)>>
                \o IF /\ recursive
                      /\ indent_level < max_level
                      /\ struct.fields[i].index_type
                           \in {file.index.structures[j].index :
                                  j \in 1..Len(file.index.structures)}
                      /\ "*" \notin Range(At(file.index.field_names,
                                             struct.fields[i].index_name))
                   THEN field_lookup(file,
                                     struct_lookup(file, struct.fields[i].index_type).val,
                                     indent_level + 1, recursive, max_level)
                   ELSE << >>])

\* BlenderFile.tree
tree(file, type_name, recursive, max_level) ==
    With(IndexOf(file.index.type_names, type_name), LAMBDA type_index :
        IF type_index < 0 THEN Raise("ValueError")
        ELSE Try(struct_lookup(file, type_index), LAMBDA dna :
                 Value([head |-> <<type_name, file.header.version>>,
                        lines |-> field_lookup(file, dna, 0, recursive, max_level)])))

\* BlenderObject.tree
object_tree(layouts, files, self, recursive, max_level) ==
    Try(object_file(files, self), LAMBDA file :
        tree(files[file], layouts[self.type].name, recursive, max_level))

(***************************************************************************)
(* The program state                                                       *)
(*                                                                         *)
(* files, factories: the BlenderFile and BlenderObjectFactory objects that *)
(*   exist, by identity.  The library holds only weak references to them,  *)
(*   so they exist exactly as long as a variable of the caller names them: *)
(*   the interpreter frees them when the last reference is deleted.        *)
(* layouts: the BlenderObject subclasses that exist.  A class is part of   *)
(*   reference cycles, so one that nothing refers to any more stays in the *)
(*   heap, and the weak references to it stay alive, until a collection    *)
(*   pass.                                                                 *)
(* FactoryCACHE, ObjectCACHE: BlenderObjectFactory.CACHE, BlenderObject.CACHE:*)
(*   version -> name -> weak reference (the identity, 0 when dead).        *)
(* heldRecords: the Records the caller keeps in variables.                 *)
(* result: the call the program made last, and its outcome.                *)
(***************************************************************************)
VARIABLES files, nextFile, factories, layouts, FactoryCACHE, ObjectCACHE,
          heldRecords, result

vars == <<files, nextFile, factories, layouts, FactoryCACHE, ObjectCACHE,
          heldRecords, result>>

W == [layouts |-> layouts, ObjectCACHE |-> ObjectCACHE]

SetW(w) ==
    /\ layouts' = w.layouts
    /\ ObjectCACHE' = w.ObjectCACHE

\* the Records a value consists of: itself, its nested Records, its elements
RECURSIVE Parts(_)
Parts(v) ==
    IF IsRecord(v)
    THEN {v} \cup UNION {Parts(v.attrs[n]) : n \in DOMAIN v.attrs}
    ELSE IF DOMAIN v = {"tuple"} THEN UNION {Parts(v.tuple[i]) : i \in 1..Len(v.tuple)}
    ELSE IF DOMAIN v = {"list"} THEN UNION {Parts(v.list[i]) : i \in 1..Len(v.list)}
    ELSE {}

\* the Records of an outcome: the Record returned, or the Records of the
\* sequence returned
Returned(out) ==
    IF out.kind # "value" THEN {}
    ELSE IF IsRecord(out.val) THEN {out.val}
    ELSE IF DOMAIN out.val = {"tuple"} THEN {x \in Range(out.val.tuple) : IsRecord(x)}
    ELSE IF DOMAIN out.val = {"list"} THEN {x \in Range(out.val.list) : IsRecord(x)}
    ELSE {}

\* the Records the caller can name: those held in variables, the Records the
\* last call returned, and the Records nested in them
Operands ==
    UNION {Parts(r) : r \in heldRecords}
        \cup (IF result.op \in {"iter", "find_by_name", "pointer", "_from_address"}
              THEN UNION {Parts(r) : r \in Returned(result.out)}
              ELSE {})

\* the caller stores at most one Record of the outcome in a variable
Keep(out) ==
    \E kept \in SUBSET Returned(out) :
        /\ Cardinality(kept) <= 1
        /\ Cardinality(heldRecords \cup kept) <= MaxRecords
        /\ heldRecords' = heldRecords \cup kept

\* whether the file a weak reference refers to is gone, or has been closed
Freed(file_ref) == file_ref \notin DOMAIN files

Closed(file_ref) == file_ref \in DOMAIN files /\ files[file_ref].closed

\* a heap without the objects that are freed
Restrict(heap, live) == IF DOMAIN heap \cap live = {} THEN << >>
                        ELSE [id \in DOMAIN heap \cap live |-> heap[id]]

\* a cache after objects are freed: the weak references to them are dead
Expire(cache, live) ==
    [version \in DOMAIN cache |->
        [name \in DOMAIN cache[version] |->
            IF cache[version][name] \in live THEN cache[version][name] ELSE 0]]

Init ==
    /\ files = << >>
    /\ nextFile = 1
    /\ factories = << >>
    /\ layouts = << >>
    /\ FactoryCACHE = << >>
    /\ ObjectCACHE = << >>
    /\ heldRecords = {}
    /\ result = [op |-> "start"]

(***************************************************************************)
(* BlenderFile                                                             *)
(***************************************************************************)
\* the end of BlenderFile.__init__: the object exists when nothing was raised, and
\* the factory cache has a dictionary for its version
Construct(path, out) ==
    IF out.kind = "value"
    THEN /\ files' = (nextFile :> out.val) @@ files
         /\ nextFile' = nextFile + 1
         /\ FactoryCACHE' =
              IF out.val.header.version \in DOMAIN FactoryCACHE THEN FactoryCACHE
              ELSE (out.val.header.version :> << >>) @@ FactoryCACHE
         /\ result' = [op |-> "open", path |-> path, out |-> Value(nextFile)]
    ELSE /\ UNCHANGED <<files, nextFile, FactoryCACHE>>
         /\ result' = [op |-> "open", path |-> path, out |-> out]

\* BlenderFile(path)
Open(path) ==
    /\ nextFile <= MaxFiles
    /\ Construct(path, OpenOutcome(path))
    /\ UNCHANGED <<factories, layouts, ObjectCACHE, heldRecords>>

\* BlenderFile.close
Close(f) ==
    /\ f \in DOMAIN files
    /\ files' = [files EXCEPT ![f].closed = TRUE]
    /\ result' = [op |-> "close", file |-> f, out |-> Value(None)]
    /\ UNCHANGED <<nextFile, factories, layouts, FactoryCACHE, ObjectCACHE, heldRecords>>

\* the record of a call of list: what the two caches and the heap held before it
ListCall(f, type_name, out) ==
    [op |-> "list", file |-> f, name |-> type_name, out |-> out,
     version |-> files[f].header.version,
     factory_entry |-> IF type_name \in DOMAIN FactoryCACHE[files[f].header.version]
                       THEN "entry" ELSE "none",
     layout_entry |-> IF files[f].header.version \in DOMAIN ObjectCACHE
                         /\ type_name \in DOMAIN ObjectCACHE[files[f].header.version]
                      THEN "entry" ELSE "none",
     factory_before |-> cache_get(FactoryCACHE, files[f].header.version, type_name),
     layout_before |-> cache_get(ObjectCACHE, files[f].header.version, type_name),
     layouts_before |-> layouts]

\* the try block of list: the factory constructed (made) gets the identity id and
\* a weak reference in the cache; a ValueError becomes a read failure
ListMade(f, type_name, made, id) ==
    IF made.out.kind # "value"
    THEN /\ SetW(made.w)
         /\ result' = ListCall(f, type_name,
                               IF made.out.kind = "ValueError"
                               THEN Raise("BlenderFileReadException")
                               ELSE made.out)
         /\ UNCHANGED <<factories, FactoryCACHE>>
    ELSE /\ Cardinality(DOMAIN factories) < MaxFactories
         /\ SetW(made.w)
         /\ factories' = (id :> made.out.val) @@ factories
         /\ FactoryCACHE' = [FactoryCACHE EXCEPT
                               ![files[f].header.version] = (type_name :> id) @@ @]
         /\ result' = ListCall(f, type_name, Value(id))

\* BlenderFile.list
List(f, type_name) ==
    /\ f \in DOMAIN files
    /\ IF cache_get(FactoryCACHE, files[f].header.version, type_name) # 0
       THEN /\ result' = ListCall(f, type_name,
                                  Value(cache_get(FactoryCACHE, files[f].header.version,
                                                  type_name)))
            /\ UNCHANGED <<factories, layouts, FactoryCACHE, ObjectCACHE>>
       ELSE IF IndexOf(files[f].index.type_names, type_name) < 0
       THEN /\ result' = ListCall(f, type_name, Raise("BlenderFileReadException"))
            /\ UNCHANGED <<factories, layouts, FactoryCACHE, ObjectCACHE>>
       ELSE ListMade(f, type_name,
                     factory_init(W, files[f], f,
                                  IndexOf(files[f].index.type_names, type_name)),
                     FreeId(factories))
    /\ UNCHANGED <<files, nextFile, heldRecords>>

\* the end of a call that works on the heap and returns Records: the caller may
\* keep one of them
Returns(r, call) ==
    /\ SetW(r.w)
    /\ Keep(r.out)
    /\ result' = [call EXCEPT !.out = r.out]

\* BlenderFile._from_address, called by the program itself
FromAddress(f, ptr) ==
    /\ f \in DOMAIN files
    /\ Returns(from_address(W, files[f], f, ptr),
               [op |-> "_from_address", file |-> f, ptr |-> ptr, out |-> None,
                closed |-> files[f].closed])
    /\ UNCHANGED <<files, nextFile, factories, FactoryCACHE>>

(***************************************************************************)
(* BlenderObjectFactory                                                    *)
(***************************************************************************)
\* the record of a call on a factory: the state of its parent file at the call
FactoryCall(op, fa, arg, out) ==
    [op |-> op, self |-> fa, arg |-> arg, out |-> out,
     name |-> factories[fa].object_name,
     has_name |-> factories[fa].has_name,
     file_ref |-> factories[fa].file_ref,
     closed |-> Closed(factories[fa].file_ref),
     freed |-> Freed(factories[fa].file_ref)]

\* factory.file
FactoryFile(fa) ==
    /\ fa \in DOMAIN factories
    /\ result' = FactoryCall("factory.file", fa, None, factory_file(files, factories[fa]))
    /\ UNCHANGED <<files, nextFile, factories, layouts, FactoryCACHE, ObjectCACHE,
                   heldRecords>>

\* len(factory)
FactoryLen(fa) ==
    /\ fa \in DOMAIN factories
    /\ result' = FactoryCall("len", fa, None, factory_len(files, factories[fa]))
    /\ UNCHANGED <<files, nextFile, factories, layouts, FactoryCACHE, ObjectCACHE,
                   heldRecords>>

\* repr(factory), str(factory)
FactoryRepr(fa) ==
    /\ fa \in DOMAIN factories
    /\ result' = FactoryCall("repr", fa, None, factory_repr(files, factories[fa]))
    /\ UNCHANGED <<files, nextFile, factories, layouts, FactoryCACHE, ObjectCACHE,
                   heldRecords>>

\* list(factory): the iteration run to its end
FactoryIter(fa) ==
    /\ fa \in DOMAIN factories
    /\ Returns(Return(W, factory_iter(layouts, files, factories[fa])),
               FactoryCall("iter", fa, None, None))
    /\ UNCHANGED <<files, nextFile, factories, FactoryCACHE>>

\* factory.find_by_name(name)
FindByName(fa, name) ==
    /\ fa \in DOMAIN factories
    /\ Returns(find_by_name(W, files, factories[fa], name),
               FactoryCall("find_by_name", fa, name, None))
    /\ UNCHANGED <<files, nextFile, factories, FactoryCACHE>>

(***************************************************************************)
(* BlenderObject                                                           *)
(***************************************************************************)
\* the record of a call on a Record: the state of its parent file at the call
ObjectCall(op, obj, arg, out) ==
    [op |-> op, self |-> obj, arg |-> arg, out |-> out,
     closed |-> Closed(obj.file), freed |-> Freed(obj.file)]

\* record.file
ObjectFile(obj) ==
    /\ obj \in Operands
    /\ result' = ObjectCall("object.file", obj, None, object_file(files, obj))
    /\ UNCHANGED <<files, nextFile, factories, layouts, FactoryCACHE, ObjectCACHE,
                   heldRecords>>

\* record.tree()
ObjectTree(obj) ==
    /\ obj \in Operands
    /\ result' = ObjectCall("tree", obj, None, object_tree(layouts, files, obj, TRUE, 999))
    /\ UNCHANGED <<files, nextFile, factories, layouts, FactoryCACHE, ObjectCACHE,
                   heldRecords>>

\* record.<name> for a pointer field
ObjectPointer(obj, name) ==
    /\ obj \in Operands
    /\ name \in DOMAIN layouts[obj.type].lookups
    /\ Returns(address_lookup_get(W, files, obj, name),
               ObjectCall("pointer", obj,
                          [name |-> name, ptr |-> obj.attrs[PtrPrefix \o name],
                           cached |-> layouts[obj.type].lookups[name]],
                          None))
    /\ UNCHANGED <<files, nextFile, factories, FactoryCACHE>>

\* record == other
ObjectEq(obj, other) ==
    /\ obj \in Operands
    /\ other \in Operands
    /\ result' = ObjectCall("eq", obj, other, object_eq(layouts, obj, other))
    /\ UNCHANGED <<files, nextFile, factories, layouts, FactoryCACHE, ObjectCACHE,
                   heldRecords>>

(***************************************************************************)
(* The caller's variables and the collector                                *)
(***************************************************************************)
\* del blend: the last reference to the file goes, and the file is freed
DropFile(f) ==
    /\ f \in DOMAIN files
    /\ files' = Restrict(files, DOMAIN files \ {f})
    /\ result' = [op |-> "del file", file |-> f]
    /\ UNCHANGED <<nextFile, factories, layouts, FactoryCACHE, ObjectCACHE, heldRecords>>

\* del factory: the last reference to the factory goes, and the factory is freed
DropFactory(fa) ==
    /\ fa \in DOMAIN factories
    /\ factories' = Restrict(factories, DOMAIN factories \ {fa})
    /\ FactoryCACHE' = Expire(FactoryCACHE, DOMAIN factories \ {fa})
    /\ result' = [op |-> "del factory", factory |-> fa]
    /\ UNCHANGED <<files, nextFile, layouts, ObjectCACHE, heldRecords>>

\* del record
DropRecord(obj) ==
    /\ obj \in heldRecords
    /\ heldRecords' = heldRecords \ {obj}
    /\ result' = [op |-> "del record"]
    /\ UNCHANGED <<files, nextFile, factories, layouts, FactoryCACHE, ObjectCACHE>>

\* roots of a heap in which the layout cache holds strong references
RootLayoutsAndCached ==
    {factories[fa].object_type : fa \in DOMAIN factories}
        \cup UNION {{p.type : p \in Parts(r)} : r \in heldRecords}
        \cup {l \in DOMAIN layouts :
                \E version \in DOMAIN ObjectCACHE :
                    \E name \in DOMAIN ObjectCACHE[version] :
                        ObjectCACHE[version][name] = l}

\* the layouts that objects in the caller's hands refer to strongly: a factory
\* its object_type, a Record its type.  The caches hold weak references only.
RootLayouts ==
    {factories[fa].object_type : fa \in DOMAIN factories}
        \cup UNION {{p.type : p \in Parts(r)} : r \in heldRecords}

\* the layouts a layout refers to strongly: the classes of its nested structures
\* (CLASSES) and the types of the Records its pointer descriptors keep (value)
Referred(l) ==
    {layouts[l].CLASSES[i].cls : i \in 1..Len(layouts[l].CLASSES)}
        \cup UNION {{p.type : p \in Parts(layouts[l].lookups[n])} :
                      n \in DOMAIN layouts[l].lookups}

RECURSIVE Closure(_)
Closure(S) ==
    LET T == S \cup UNION {Referred(l) : l \in S}
    IN IF T = S THEN S ELSE Closure(T)

\* a collection pass (gc.collect(), or the collector running by itself): every
\* layout that is not reachable from the caller's variables is freed
Collect ==
    /\ layouts' = Restrict(layouts, Closure(RootLayouts))
    /\ ObjectCACHE' = Expire(ObjectCACHE, Closure(RootLayouts))
    /\ result' = [op |-> "collect", layouts_before |-> layouts]
    /\ UNCHANGED <<files, nextFile, factories, FactoryCACHE, heldRecords>>

\* file._struct_lookup(index)
StructLookup(f, index) ==
    /\ f \in DOMAIN files
    /\ result' = [op |-> "_struct_lookup", file |-> f, index |-> index,
                  out |-> struct_lookup(files[f], index)]
    /\ UNCHANGED <<files, nextFile, factories, layouts, FactoryCACHE, ObjectCACHE,
                   heldRecords>>

\* file._export_struct(struct) on the i-th structure of the index
ExportStruct(f, i) ==
    /\ f \in DOMAIN files
    /\ i \in 1..Len(files[f].index.structures)
    /\ result' = [op |-> "_export_struct", file |-> f,
                  struct |-> files[f].index.structures[i],
                  out |-> Value(export_struct(files[f], files[f].index.structures[i]))]
    /\ UNCHANGED <<files, nextFile, factories, layouts, FactoryCACHE, ObjectCACHE,
                   heldRecords>>

\* the first lines of BlenderFile.__init__ on the twelve or fewer bytes
\* handle.read(12) returned: the header, or 'Bad file header'
ParseHeader(header) ==
    /\ result' = [op |-> "_parse_header", header |-> header,
                  out |-> IF parse_header(header) = None
                          THEN Raise("BlenderFileImportException")
                          ELSE Value(parse_header(header))]
    /\ UNCHANGED <<files, nextFile, factories, layouts, FactoryCACHE, ObjectCACHE,
                   heldRecords>>

\* BlenderFile(path) on the bytes of a file, up to the loop of _parse_blocks
ParseBlocks(raw) ==
    /\ result.op = "_parse_blocks" => result.out.kind # "running"
    /\ result' = scan_start(raw)
    /\ UNCHANGED <<files, nextFile, factories, layouts, FactoryCACHE, ObjectCACHE,
                   heldRecords>>

\* the next test of the loop and the iteration or the exit that follows it.  The
\* reader's position decides everything an iteration does to the reader, so a scan
\* that is back at a position where it has read a header goes round for ever: the
\* model follows it up to there
ScanStep ==
    /\ result.op = "_parse_blocks"
    /\ result.out.kind = "running"
    /\ result.pos \notin result.seen
    /\ result' = scan_iteration(result)
    /\ UNCHANGED <<files, nextFile, factories, layouts, FactoryCACHE, ObjectCACHE,
                   heldRecords>>

(***************************************************************************)
(* The calls the program makes                                             *)
(***************************************************************************)
\* the structure names list is called with
Names == {"World", "Scene", "rctf", "TreeStoreElem", "ID", "short", "foos"}

\* the names find_by_name is called with
ObjectNames == {<<"A">>, <<"S">>, <<"Z">>}

\* the addresses _from_address is called with
Addresses == {0, 16, 99}

\* the names of the pointer fields of the schema
PointerNames == {<<"n", "e", "x", "t">>, <<"w", "o", "r", "l", "d">>, <<"i", "d">>}

Next ==
    \/ \E path \in Paths : Open(path)
    \/ \E f \in DOMAIN files : Close(f)
    \/ \E f \in DOMAIN files, type_name \in Names : List(f, type_name)
    \/ \E f \in DOMAIN files, ptr \in Addresses : FromAddress(f, ptr)
    \/ \E fa \in DOMAIN factories : FactoryFile(fa)
    \/ \E fa \in DOMAIN factories : FactoryLen(fa)
    \/ \E fa \in DOMAIN factories : FactoryRepr(fa)
    \/ \E fa \in DOMAIN factories : FactoryIter(fa)
    \/ \E fa \in DOMAIN factories, name \in ObjectNames : FindByName(fa, name)
    \/ \E obj \in Operands : ObjectFile(obj)
    \/ \E obj \in Operands : ObjectTree(obj)
    \/ \E obj \in Operands, name \in PointerNames : ObjectPointer(obj, name)
    \/ \E obj \in Operands, other \in Operands : ObjectEq(obj, other)
    \/ \E f \in DOMAIN files : DropFile(f)
    \/ \E fa \in DOMAIN factories : DropFactory(fa)
    \/ \E obj \in heldRecords : DropRecord(obj)
    \/ Collect

\* the program: any sequence of calls
Spec == Init /\ [][Next]_vars

(***************************************************************************)
(* Programs of a given shape.  Each is the program above with the calls it *)
(* makes restricted, which keeps the state space small enough to search    *)
(* completely.                                                             *)
(***************************************************************************)
\* a program that opens one file and goes on using its factories and Records
\* after it has closed the file or deleted it
NextRelease ==
    \/ nextFile = 1 /\ Open("a.blend")
    \/ \E f \in DOMAIN files : Close(f)
    \/ \E f \in DOMAIN files : DropFile(f)
    \/ \E f \in DOMAIN files, type_name \in {"World", "rctf"} : List(f, type_name)
    \/ \E fa \in DOMAIN factories : FactoryFile(fa)
    \/ \E fa \in DOMAIN factories : FactoryLen(fa)
    \/ \E fa \in DOMAIN factories : FactoryRepr(fa)
    \/ \E fa \in DOMAIN factories : FactoryIter(fa)
    \/ \E fa \in DOMAIN factories, name \in {<<"A">>, <<"Z">>} : FindByName(fa, name)
    \/ \E obj \in Operands : ObjectFile(obj)
    \/ \E obj \in Operands : ObjectTree(obj)
    \/ \E obj \in Operands, name \in PointerNames : ObjectPointer(obj, name)

SpecRelease == Init /\ [][NextRelease]_vars

\* a program that opens files of two versions, lists structure types in them and
\* drops the factories it got
NextCache ==
    \/ \E path \in {"a.blend", "b.blend", "c.blend", "text.txt"} : Open(path)
    \/ \E f \in DOMAIN files, type_name \in {"World", "ID", "short", "foos"} :
          List(f, type_name)
    \/ \E fa \in DOMAIN factories : FactoryFile(fa)
    \/ \E fa \in DOMAIN factories : FactoryLen(fa)
    \/ \E fa \in DOMAIN factories : DropFactory(fa)
    \/ Collect

SpecCache == Init /\ [][NextCache]_vars

\* a program that opens one file and follows the pointers of its Records
NextPointer ==
    \/ nextFile = 1 /\ Open("a.blend")
    \/ \E f \in DOMAIN files : Close(f)
    \/ \E f \in DOMAIN files, type_name \in {"Scene", "TreeStoreElem"} : List(f, type_name)
    \/ \E f \in DOMAIN files, ptr \in Addresses : FromAddress(f, ptr)
    \/ \E fa \in DOMAIN factories : FactoryIter(fa)
    \/ \E fa \in DOMAIN factories, name \in {<<"S">>, <<"T">>} : FindByName(fa, name)
    \/ \E obj \in Operands, name \in PointerNames : ObjectPointer(obj, name)
    \/ \E obj \in heldRecords : DropRecord(obj)
    \/ Collect

SpecPointer == Init /\ [][NextPointer]_vars

\* a program that opens one file, looks Records up by name and compares Records
NextIdentity ==
    \/ nextFile = 1 /\ Open("a.blend")
    \/ \E f \in DOMAIN files, type_name \in {"World", "Scene", "rctf", "TreeStoreElem"} :
          List(f, type_name)
    \/ \E fa \in DOMAIN factories : FactoryIter(fa)
    \/ \E fa \in DOMAIN factories, name \in ObjectNames : FindByName(fa, name)
    \/ \E obj \in Operands, other \in Operands : ObjectEq(obj, other)
    \/ \E obj \in heldRecords : DropRecord(obj)

SpecIdentity == Init /\ [][NextIdentity]_vars

\* a program that opens one file and drops the factories and Records it got, with
\* collection passes in between
NextEvict ==
    \/ nextFile = 1 /\ Open("a.blend")
    \/ \E f \in DOMAIN files, type_name \in {"Scene", "World", "ID"} : List(f, type_name)
    \/ \E fa \in DOMAIN factories : FactoryIter(fa)
    \/ \E fa \in DOMAIN factories : FindByName(fa, <<"S">>)
    \/ \E obj \in Operands, name \in PointerNames : ObjectPointer(obj, name)
    \/ \E fa \in DOMAIN factories : DropFactory(fa)
    \/ \E obj \in heldRecords : DropRecord(obj)
    \/ Collect

SpecEvict == Init /\ [][NextEvict]_vars

\* one open of a file whose block stream may be damaged
NextScan ==
    \/ result.op = "start" /\ \E raw \in RawFiles(parse_header(Header277)) : ParseBlocks(raw)
    \/ ScanStep

SpecScan == Init /\ [][NextScan]_vars

\* the first bytes of the files open is called on: b'BLENDER' or b'BLENDEX', then
\* one of b'-', b'_', b'*', then one of b'v', b'V', b'x', then three of
\* b'2' or b'7', b'a', b'/'; and these cut to eleven bytes (a shorter file)
HeaderInputs ==
    UNION {{h, Slice(h, 0, 11)} :
             h \in {<<66, 76, 69, 78, 68, 69, last, arch, endian, major, minor, rev>> :
                      last \in {82, 88}, arch \in {45, 95, 42}, endian \in {118, 86, 120},
                      major \in {50, 97, 47}, minor \in {55, 97, 47},
                      rev \in {55, 97, 47}}}

\* opening files with any first bytes
NextHeader == \E header \in HeaderInputs : ParseHeader(header)

SpecHeader == Init /\ [][NextHeader]_vars

\* counting, iterating and resolving addresses on a file with two blocks at one
\* address and a block of two structures
NextDecode ==
    \/ nextFile = 1 /\ Open("d.blend")
    \/ \E f \in DOMAIN files : Close(f)
    \/ \E f \in DOMAIN files, type_name \in {"rctf", "World"} : List(f, type_name)
    \/ \E f \in DOMAIN files, ptr \in {0, 16, 64, 80} : FromAddress(f, ptr)
    \/ \E fa \in DOMAIN factories : FactoryLen(fa)
    \/ \E fa \in DOMAIN factories : FactoryIter(fa)
    \/ \E obj \in heldRecords : DropRecord(obj)

SpecDecode == Init /\ [][NextDecode]_vars

\* looking up and resolving the structures of the schema of a 64-bit and of a
\* 32-bit file
NextSchema ==
    \/ \E path \in {"e.blend", "f.blend"} : Open(path)
    \/ \E f \in DOMAIN files, index \in -1..10 : StructLookup(f, index)
    \/ \E f \in DOMAIN files, i \in 1..6 : ExportStruct(f, i)

SpecSchema == Init /\ [][NextSchema]_vars

\* a program that opens a little-endian 64-bit file and a big-endian 32-bit file
\* of one version and resolves the addresses of a Scene and of an rctf in them
NextArch ==
    \/ \E path \in {"a.blend", "g.blend"} : Open(path)
    \/ \E f \in DOMAIN files, ptr \in {32, 64} : FromAddress(f, ptr)
    \/ \E obj \in heldRecords : DropRecord(obj)
    \/ Collect

SpecArch == Init /\ [][NextArch]_vars

(***************************************************************************)
(* Properties.  Each is stated on result, the call the program made last,  *)
(* in the state the call left.                                             *)
(***************************************************************************)
FactoryOps == {"factory.file", "len", "repr", "iter", "find_by_name"}

RecordOps == {"object.file", "pointer", "tree"}

\* C1: after close() has been called on a File, every Factory operation (file
\* access, count, repr, iterate, find_by_name) and every Record operation that
\* needs the File (file access, pointer read, tree) on a Factory or Record of
\* that File raises the 'parent released' error (RuntimeError)
C1_ClosedRaisesReleased ==
    (result.op \in FactoryOps \cup RecordOps /\ result.closed)
        => result.out.kind = "RuntimeError"

\* C2: once the owning File has been freed while a Factory is still held, every
\* Factory method (file, len, repr, iteration, find_by_name), for a structure
\* type with or without an identity field, raises RuntimeError
C2_FreedRaisesRuntimeError ==
    (result.op \in FactoryOps /\ result.freed) => result.out.kind = "RuntimeError"

\* the Factory a call of list returned
Listed == factories[result.out.val]

\* C3: the Factory that F.list(name) returns is bound to F: its file property is
\* F, and its count is the count of F's block table
C3_FactoryBoundToFile ==
    (result.op = "list" /\ result.out.kind = "value")
        => /\ factory_file(files, Listed).kind = "value"
           /\ factory_file(files, Listed).val = result.file
           /\ factory_len(files, Listed).kind = "value"
           /\ factory_len(files, Listed).val
                = PyInt(Len(matching_blocks(files[result.file], Listed)))

\* C4: reading a pointer field whose stored address is zero returns None, on
\* every Record and after any earlier pointer reads on other Records of the type
C4_ZeroPointerIsAbsent ==
    (result.op = "pointer" /\ result.arg.ptr = PyInt(0)) => result.out = Value(None)

\* whether a block of file f records the address
Recorded(f, address) ==
    \E i \in 1..Len(files[f].blocks) : files[f].blocks[i].block.addr = address

\* C5: resolving a nonzero address that no block of the File records raises
\* BlenderFileReadException, through a pointer read of a Record whose File exists
\* and through _from_address; so does _from_address(0) when no block records 0
C5_UnknownAddressFails ==
    /\ (result.op = "_from_address" /\ ~Recorded(result.file, result.ptr))
          => result.out.kind = "BlenderFileReadException"
    /\ (/\ result.op = "pointer"
        /\ IsInt(result.arg.ptr)
        /\ result.arg.ptr # PyInt(0)
        /\ ~result.freed
        /\ ~Recorded(result.self.file, result.arg.ptr.int))
          => result.out.kind = "BlenderFileReadException"

\* C5: a pointer read of the address 99, which no block records, has failed
C5_UnknownAddressRead ==
    /\ result.op = "pointer"
    /\ result.arg.ptr = PyInt(99)
    /\ result.out.kind = "BlenderFileReadException"

\* the names of the scalar and array fields of a Record
ScalarNames(obj) == {n \in DOMAIN obj.attrs : ~IsRecord(obj.attrs[n])}

\* C6: two Records of the same layout compare equal if and only if every scalar
\* and array field of one equals the corresponding field of the other
C6_EqualityIsConjunction ==
    (/\ result.op = "eq"
     /\ result.arg.type = result.self.type
     /\ result.out.kind = "value")
        => (result.out.val
              <=> \A n \in ScalarNames(result.self) :
                      result.self.attrs[n] = result.arg.attrs[n])

\* the version and name a Factory, and a layout, is cached under
FactoryKey(fa) ==
    <<layouts[factories[fa].object_type].VERSION, factories[fa].object_name>>

LayoutKey(l) == <<layouts[l].VERSION, layouts[l].name>>

\* C7: while the Factory (the layout) of a version and name is alive, list(name)
\* on a File of that version returns that Factory (uses that layout) and compiles
\* no layout; at most one Factory and one layout exist per version and name
C7_OnePerVersionAndName ==
    /\ (result.op = "list" /\ result.factory_before # 0)
          => /\ result.out = Value(result.factory_before)
             /\ layouts = result.layouts_before
    /\ (result.op = "list" /\ result.layout_before # 0 /\ result.out.kind = "value")
          => /\ Listed.object_type = result.layout_before
             /\ layouts = result.layouts_before
    /\ \A fa, fb \in DOMAIN factories : FactoryKey(fa) = FactoryKey(fb) => fa = fb
    /\ \A la, lb \in DOMAIN layouts : LayoutKey(la) = LayoutKey(lb) => la = lb

\* C7: list on one File has returned the Factory another File of the version built
C7_HitFromOtherFile ==
    /\ result.op = "list"
    /\ result.factory_before # 0
    /\ result.out = Value(result.factory_before)
    /\ factories[result.factory_before].file_ref # result.file

\* the layouts the caller's Factories and Records refer to, and the layouts
\* reachable from them
HeldLayouts ==
    {factories[fa].object_type : fa \in DOMAIN factories}
        \cup UNION {{p.type : p \in Parts(r)} : r \in heldRecords}

\* whether the caller holds neither the Factory of the version and name nor a
\* Record of its layout
Dropped(version, name) ==
    /\ \A fa \in DOMAIN factories : FactoryKey(fa) # <<version, name>>
    /\ \A r \in heldRecords : LayoutKey(r.type) # <<version, name>>

\* the parts of C8 that the original and the amended statement share: after
\* list(name) both entries are live; a list(name) that finds both entries dead
\* builds a Factory on the calling File and a layout that did not exist
C8_ListMakesLive ==
    /\ (result.op = "list" /\ result.out.kind = "value")
          => /\ cache_get(FactoryCACHE, result.version, result.name) = result.out.val
             /\ result.out.val \in DOMAIN factories
             /\ cache_get(ObjectCACHE, result.version, result.name) = Listed.object_type
             /\ Listed.object_type \in DOMAIN layouts
    /\ (/\ result.op = "list"
        /\ result.out.kind = "value"
        /\ result.factory_entry = "entry"
        /\ result.factory_before = 0
        /\ result.layout_entry = "entry"
        /\ result.layout_before = 0)
          => /\ Listed.file_ref = result.file
             /\ Listed.object_type \notin DOMAIN result.layouts_before

\* C8 as stated: after list(name) both cache entries of the name are live; after
\* the Factory and its Records are dropped and a collection pass has run, both
\* are dead; the next list(name) rebuilds both
C8_DroppedEntriesDie ==
    /\ C8_ListMakesLive
    /\ result.op = "collect"
          => \A version \in DOMAIN FactoryCACHE :
                 \A name \in DOMAIN FactoryCACHE[version] :
                     Dropped(version, name)
                        => /\ cache_get(FactoryCACHE, version, name) = 0
                           /\ cache_get(ObjectCACHE, version, name) = 0

\* C8 amended: after a collection pass the Factory entry of a dropped Factory is
\* dead, and a layout entry is live only if its layout is still reachable from a
\* Factory or a Record the caller holds
C8_UnreachableEntriesDie ==
    /\ C8_ListMakesLive
    /\ result.op = "collect"
          => /\ \A version \in DOMAIN FactoryCACHE :
                    \A name \in DOMAIN FactoryCACHE[version] :
                        Dropped(version, name)
                           => cache_get(FactoryCACHE, version, name) = 0
             /\ \A version \in DOMAIN ObjectCACHE :
                    \A name \in DOMAIN ObjectCACHE[version] :
                        cache_get(ObjectCACHE, version, name) # 0
                           => cache_get(ObjectCACHE, version, name)
                                 \in Closure(HeldLayouts)

\* C8: a list(name) has found both entries of the name dead and rebuilt both
C8_RebuiltAfterEviction ==
    /\ result.op = "list"
    /\ result.out.kind = "value"
    /\ result.factory_entry = "entry"
    /\ result.factory_before = 0
    /\ result.layout_entry = "entry"
    /\ result.layout_before = 0
    /\ Listed.object_type \notin DOMAIN result.layouts_before

\* whether the layout has an embedded ID sub-structure
HasIdentity(l) ==
    \E i \in 1..Len(layouts[l].CLASSES) : layouts[layouts[l].CLASSES[i].cls].name = "ID"

\* the name of a Record with an embedded ID: id.name without its two-letter
\* code, up to the first zero byte
NameOf(obj) ==
    Slice(obj.attrs[<<"i", "d">>].attrs[<<"n", "a", "m", "e">>].bytes, 2,
          IndexOf(obj.attrs[<<"i", "d">>].attrs[<<"n", "a", "m", "e">>].bytes, 0))

\* the Records of a Factory in block-table order that have the name
Named(fa, name) ==
    SelectSeq(factory_iter(layouts, files, factories[fa]).val.list,
              LAMBDA obj : NameOf(obj) = encode(name))

\* C9: find_by_name(n) raises BlenderFileReadException on a Factory whose type has
\* no embedded ID, KeyError when the type has one and no Record is named n, and
\* returns the first Record named n in block-table order otherwise
C9_FindByName ==
    (result.op = "find_by_name" /\ ~result.freed /\ ~result.closed)
        => IF ~HasIdentity(factories[result.self].object_type)
           THEN result.out.kind = "BlenderFileReadException"
           ELSE IF Named(result.self, result.arg) = << >>
                THEN result.out.kind = "KeyError"
                ELSE result.out = Value(Head(Named(result.self, result.arg)))

\* the names of the structures the schema of a file defines
StructureNames(file) ==
    {At(file.index.type_names, file.index.structures[i].index) :
       i \in 1..Len(file.index.structures)}

\* C10: list(name) raises BlenderFileReadException for every name that is not the
\* name of a structure of the File's schema, and creates no cache entry for it
C10_NoStructureReadFailure ==
    (result.op = "list" /\ result.name \notin StructureNames(files[result.file]))
        => /\ result.out.kind = "BlenderFileReadException"
           /\ result.name \notin DOMAIN FactoryCACHE[result.version]

\* whether a scan has ended
Scanned == result.op = "_parse_blocks" /\ result.out.kind # "running"

\* whether every payload size of the file is zero or more
Forward(raw) == \A i \in 1..Len(raw.cells) : raw.cells[i].head.size >= 0

\* C11: opening a file whose block stream reaches the end of the file without an
\* ENDB block, also one cut off inside a block header or whose last payload runs
\* past the end, or whose stream has no DNA1 block, fails with
\* BlenderFileImportException and with no other error
C11_DamagedStreamImportFailure ==
    (/\ Scanned
     /\ Forward(result.file)
     /\ ~result.end_found \/ result.blend_index = None)
        => result.out.kind = "BlenderFileImportException"

\* C17: the block scan of open ends for every finite file, at the ENDB block, at
\* the end of the file or with a raised failure, whatever the payload sizes are.
\* What the scan does at a position depends on the position alone, so it goes
\* round for ever exactly if it is ever back where it has read a header before
C17_ScanNeverReturns ==
    (result.op = "_parse_blocks" /\ result.out.kind = "running")
        => result.pos \notin result.seen

\* the blocks of a file from its i-th cell up to the ENDB block, without the DNA1
\* block, each with the position of its payload
RECURSIVE TableFrom(_, _)
TableFrom(raw, i) ==
    IF i > Len(raw.cells) \/ raw.cells[i].head.code = "ENDB" THEN << >>
    ELSE (IF raw.cells[i].head.code = "DNA1" THEN << >>
          ELSE << [block |-> raw.cells[i].head,
                   offset |-> 12 + i * header_block_size(raw.header)] >>)
            \o TableFrom(raw, i + 1 + raw.cells[i].head.size \div header_block_size(raw.header))

\* C18: after a successful open the block table holds exactly the blocks before
\* the ENDB block whose code is neither DNA1 nor ENDB, each once, in file order,
\* each with the file offset of the first byte of its payload
C18_BlockTable ==
    (Scanned /\ result.out.kind = "value")
        => result.out.val.blocks = TableFrom(result.file, 1)

\* C18: an open has succeeded on a file with a block that has a payload
C18_TableWithBlock ==
    /\ Scanned
    /\ result.out.kind = "value"
    /\ Len(result.out.val.blocks) = 1
    /\ result.out.val.blocks[1].block.size > 0

\* C19: when _parse_index returns an index, the reader is where it was on entry,
\* just after the header of the DNA1 block, so that the skip of the payload size
\* that follows ends on the next block header
C19_IndexParserRewinds ==
    (/\ result.op = "_parse_blocks"
     /\ result.parsed # None
     /\ result.parsed.out.kind = "value")
        => /\ result.parsed.exit = result.parsed.entry
           /\ result.pos = result.parsed.entry
                + cell_at(result.file,
                          result.parsed.entry - header_block_size(result.file.header)).head.size

\* C19: the scan has parsed the index of a DNA1 block and gone on
C19_IndexParsed ==
    /\ result.op = "_parse_blocks"
    /\ result.parsed # None
    /\ result.parsed.out.kind = "value"
    /\ result.parsed.entry = 12 + 2 * header_block_size(result.file.header)

\* whether twelve bytes are b'BLENDER', an arch marker, an endian marker and
\* three ASCII digits
WellFormedHeader(header) ==
    /\ Len(header) = 12
    /\ SubSeq(header, 1, 7) = <<66, 76, 69, 78, 68, 69, 82>>
    /\ header[8] \in {45, 95}
    /\ header[9] \in {118, 86}
    /\ \A i \in 10..12 : header[i] \in 48..57

\* C12: header decoding succeeds only on b'BLENDER', then b'-' (64-bit) or b'_'
\* (32-bit), then b'v' (little) or b'V' (big), then three ASCII digits, and gives
\* the version (byte 9 - 48, byte 10 - 48, byte 11 - 48); on every other input
\* open fails with BlenderFileImportException
C12_HeaderDecoding ==
    result.op = "_parse_header"
        => IF WellFormedHeader(result.header)
           THEN /\ result.out.kind = "value"
                /\ result.out.val.version
                     = <<result.header[10] - 48, result.header[11] - 48,
                         result.header[12] - 48>>
                /\ result.out.val.arch = (IF result.header[8] = 45 THEN "X64" ELSE "X32")
                /\ result.out.val.endian
                     = (IF result.header[9] = 118 THEN "Little" ELSE "Big")
           ELSE result.out.kind = "BlenderFileImportException"

\* the block-table entries of the parent file with the structure index of the
\* Factory of the last call, in table order
Entries ==
    SelectSeq(files[result.file_ref].blocks,
              LAMBDA e : e.block.sdna = factories[result.self].sdna_index)

\* C13: on an open File, len(factory) is the number of block-table entries with
\* the Factory's structure index, and iteration yields one Record per such entry,
\* in block-table order, so as many Records as len says
C13_CountAndIterate ==
    /\ (result.op = "len" /\ ~result.closed /\ ~result.freed)
          => result.out = Value(PyInt(Cardinality(
                 {i \in 1..Len(files[result.file_ref].blocks) :
                     files[result.file_ref].blocks[i].block.sdna
                        = factories[result.self].sdna_index})))
    /\ (result.op = "iter" /\ ~result.closed /\ ~result.freed)
          => /\ result.out.kind = "value"
             /\ Len(result.out.val.list) = Len(Entries)
             /\ \A k \in 1..Len(Entries) :
                   /\ IsRecord(result.out.val.list[k])
                   /\ Value(result.out.val.list[k])
                        = factory_yield(layouts, files[result.file_ref],
                                        factories[result.self], Entries[k])

\* C13: an iteration has yielded the Records of three matching entries
C13_IteratedSeveral ==
    /\ result.op = "iter"
    /\ ~result.closed
    /\ result.out.kind = "value"
    /\ Len(result.out.val.list) = 3

\* whether a decoded value is what a block of count structures decodes to: one
\* Record, or the sequence of count Records
DecodedAs(v, count) ==
    IF count > 1
    THEN /\ IsTuple(v)
         /\ Len(v.tuple) = count
         /\ \A i \in 1..count : IsRecord(v.tuple[i])
    ELSE IsRecord(v)

\* C14: a block of n > 1 structures decodes to the sequence of its n Records and a
\* block of one structure to one Record, both in Factory iteration and in pointer
\* resolution
C14_MultiElementBlocks ==
    /\ (result.op = "_from_address" /\ result.out.kind = "value")
          => \A i \in 1..Len(files[result.file].blocks) :
                files[result.file].blocks[i].block.addr = result.ptr
                   => DecodedAs(result.out.val, files[result.file].blocks[i].block.count)
    /\ (result.op = "iter" /\ result.out.kind = "value")
          => \A k \in 1..Len(Entries) :
                DecodedAs(result.out.val.list[k], Entries[k].block.count)

\* the first entry of the block table of file f that records the address
FirstAt(f, address) ==
    files[f].blocks[Lowest({i \in 1..Len(files[f].blocks) :
                              files[f].blocks[i].block.addr = address})]

\* C15: when several blocks record the same nonzero address, resolving the address
\* decodes the first of them in block-table order
C15_FirstMatchWins ==
    (/\ result.op = "_from_address"
     /\ result.ptr # 0
     /\ result.out.kind = "value"
     /\ IsRecord(result.out.val))
        => Value(result.out.val)
             = With(FirstAt(result.file, result.ptr), LAMBDA e :
                   new_object(layouts, result.out.val.type, result.file,
                              read_block(files[result.file], e.block, e.offset).val))

\* the structure definitions of file f whose defining type index is index
DefinedAt(f, index) ==
    {i \in 1..Len(files[f].index.structures) : files[f].index.structures[i].index = index}

\* C16: _struct_lookup returns the structure definition whose defining type index
\* is the given index when there is one, and raises BlenderFileReadException and
\* no other error for every other integer: the index of a primitive type, a
\* negative index, the length of the type-name table, or a larger index
C16_StructLookup ==
    result.op = "_struct_lookup"
        => IF DefinedAt(result.file, result.index) # {}
           THEN /\ result.out.kind = "value"
                /\ result.out.val.index = result.index
                /\ \E i \in DefinedAt(result.file, result.index) :
                      result.out.val = files[result.file].index.structures[i]
           ELSE result.out.kind = "BlenderFileReadException"

\* the product of the bracketed dimensions of a raw field name, 1 when it has none
RECURSIVE BracketProduct(_)
BracketProduct(name) ==
    IF name = << >> THEN 1
    ELSE IF Head(name) = "["
         THEN IntOf(Slice(name, 1, IndexOf(name, "]")))
                * BracketProduct(Slice(name, IndexOf(name, "]") + 1, Len(name)))
         ELSE BracketProduct(Tail(name))

\* the raw name and the type size of the k-th field of the structure resolved last
RawName(k) ==
    At(files[result.file].index.field_names, result.struct.fields[k].index_name)

TypeSize(k) ==
    At(files[result.file].index.type_sizes, result.struct.fields[k].index_type)

PointerWidth == IF files[result.file].header.arch = "X64" THEN 8 ELSE 4

\* the part of C20 on fields that are no pointers: the arity is the product of
\* the bracketed dimensions, the size the type size times the arity
NonPointerFields ==
    result.op = "_export_struct"
        => \A k \in 1..Len(result.struct.fields) :
              Head(RawName(k)) # "*"
                 => /\ ~result.out.val.fields[k].ptr
                    /\ result.out.val.fields[k].count = BracketProduct(RawName(k))
                    /\ result.out.val.fields[k].size
                         = TypeSize(k) * BracketProduct(RawName(k))

\* C20 as stated: a field whose raw name begins with '*' is marked is-pointer, its
\* size is the pointer width of the architecture (8 or 4) whatever its type, and
\* its arity is 1 even when dimensions follow the name; a field that is no
\* pointer has the product of its dimensions as arity and the type size times the
\* arity as size
C20_PointerArityOne ==
    /\ NonPointerFields
    /\ result.op = "_export_struct"
          => \A k \in 1..Len(result.struct.fields) :
                Head(RawName(k)) = "*"
                   => /\ result.out.val.fields[k].ptr
                      /\ result.out.val.fields[k].size = PointerWidth
                      /\ result.out.val.fields[k].count = 1

\* C20 amended: a field whose raw name begins with '*' is marked is-pointer, its
\* arity is the product of the dimensions that follow the name (1 when there are
\* none), and its size is the pointer width of the architecture times the arity,
\* whatever its type; fields that are no pointers as stated
C20_PointerArityIsProduct ==
    /\ NonPointerFields
    /\ result.op = "_export_struct"
          => \A k \in 1..Len(result.struct.fields) :
                Head(RawName(k)) = "*"
                   => /\ result.out.val.fields[k].ptr
                      /\ result.out.val.fields[k].count = BracketProduct(RawName(k))
                      /\ result.out.val.fields[k].size
                           = PointerWidth * BracketProduct(RawName(k))

\* C20: the structure with the pointer arrays has been resolved for a 32-bit file
C20_PointerArrayResolved ==
    /\ result.op = "_export_struct"
    /\ PointerWidth = 4
    /\ \E k \in 1..Len(result.struct.fields) :
          /\ Head(RawName(k)) = "*"
          /\ result.out.val.fields[k].ptr
          /\ result.out.val.fields[k].count = 4
          /\ result.out.val.fields[k].size = 16

\* the header of the block of file f that _from_address uses for the address
BlockAt(f, address) ==
    files[f].blocks[Max({i \in 1..Len(files[f].blocks) :
                           files[f].blocks[i].block.addr = address})].block

\* the layout the last _from_address decoded with: the one the layout cache holds
\* for the version of the file and the name of the structure of the block
LayoutUsed ==
    cache_get(ObjectCACHE, files[result.file].header.version,
              At(files[result.file].index.type_names,
                 At(files[result.file].index.structures,
                    BlockAt(result.file, result.ptr).sdna).index))

\* C21: whenever a block of a File is decoded, the compiled layout used has the
\* byte order of that File's header and pointers of the width of that File's
\* header, also when another File of the same version with another byte order
\* or pointer width compiled the layout of that structure earlier and it is still
\* cached
C21_LayoutOfOwnHeader ==
    (/\ result.op = "_from_address"
     /\ Recorded(result.file, result.ptr)
     /\ result.out.kind \in {"value", "struct.error"})
        => /\ LayoutUsed \in DOMAIN layouts
           /\ layouts[LayoutUsed].FMT.endian
                = EndianValue(files[result.file].header.endian)
           /\ \A i \in 1..Len(layouts[LayoutUsed].FMT.items) :
                 layouts[LayoutUsed].FMT.items[i].c \in {"I", "Q"}
                    => layouts[LayoutUsed].FMT.items[i].c
                         = ArchValue(files[result.file].header.arch)

====
